---- MODULE Spec2Model ----
(***************************************************************************)
(* WAVE (RIFF/PCM) reader and writer of blurt_cpp_80211/wave.cc.           *)
(*                                                                         *)
(* A behaviour is the life of ONE session: either a Wave_read over a file  *)
(* (constructor, close, destructor, or the whole of readwave), or a        *)
(* Wave_write (setters, writeframes, close, destructor).  Sessions share   *)
(* no state, so the initial states are the union of the two kinds.         *)
(*                                                                         *)
(* The build modelled is the one with C++ exceptions enabled: `throw`      *)
(* leaves the running operation (wave.cc:6-8 redefines it otherwise).      *)
(* The Chunk accessor (chunk.h) is not part of wave.cc; it is modelled     *)
(* from its documented contract.                                           *)
(***************************************************************************)
EXTENDS Integers, Sequences, FiniteSets, TLC

VARIABLES
    file,      \* reader: the container on disk, or NoFile
    rd,        \* reader: the Wave_read object (status "absent" before construction)
    caller,    \* reader: readwave's out-parameters `output`, `Fs` and its return
    wr,        \* writer: the Wave_write object (status "absent" in a reader run)
    wlog,      \* writer: the calls made on the Chunk accessor, in order
    res,       \* the session's file_chunk accessor: open flag, number of releases
    last,      \* the last operation invoked, its argument and how it ended
    wave       \* writewave: its arguments, its quantized buffer and its return

vars == <<file, rd, caller, wr, wlog, res, last, wave>>

---------------------------------------------------------------------------
\* Bounds of the model.

\* Longest sub-chunk sequence of a container.
MaxChunks == 3
\* Largest declared byte length of a `data` chunk.
MaxDataLen == 3
\* Most writeframes calls in a writer run.
MaxWrites == 2
\* Most close calls in a run.
MaxCloses == 2
MaxInput == 3

---------------------------------------------------------------------------
\* Program constants and error strings.

WAVE_FORMAT_PCM == 1

NoErr == "none"
FormatErrorRIFF == "file does not start with RIFF id"
FormatErrorWAVE == "not a WAVE file"
UnsupportedFormatError == "unknown format"
OrderError == "data chunk before fmt chunk"
MissingChunkError == "fmt chunk and/or data chunk missing"
StateError == "cannot change parameters after starting to write"
BadChannels == "bad # of channels"
BadSampWidth == "bad sample width"
BadFrameRate == "bad frame rate"
ChannelsUnset == "# channels not specified"
SampWidthUnset == "sample width not specified"
FrameRateUnset == "sampling rate not specified"
ValidationErrors ==
    {BadChannels, BadSampWidth, BadFrameRate, ChannelsUnset, SampWidthUnset, FrameRateUnset}

U16 == 65536

---------------------------------------------------------------------------
\* Chunk accessor (contract of chunk.h).

\* close(): idempotent release of the underlying resource.
\* `closes` counts the calls, `releases` the releases they performed.
ChunkClose(c) ==
    [open |-> FALSE,
     releases |-> IF c.open THEN c.releases + 1 ELSE c.releases,
     closes |-> c.closes + 1]

OpenResource == [open |-> TRUE, releases |-> 0, closes |-> 0]

---------------------------------------------------------------------------
\* Reader inputs: containers.

NoFile == [exists |-> FALSE]

\* WaveFormatEx payloads of a `fmt ` chunk.
Fmt(tag, ch, rate, bits) ==
    [id |-> "fmt ", wFormatTag |-> tag, wChannels |-> ch,
     dwFrameRate |-> rate, wBitsPerSample |-> bits]

FmtChunks ==
    { Fmt(1, 1, 8000, 8),      \* mono, 1 byte per sample
      Fmt(1, 2, 8000, 8),      \* stereo, 1 byte per sample
      Fmt(1, 1, 11025, 12),    \* 12 bits: 2 bytes per sample
      Fmt(1, 0, 8000, 8),      \* no channel
      Fmt(1, 1, 0, 8),         \* frame rate 0
      Fmt(1, 1, 8000, 40),     \* 40 bits: 5 bytes per sample
      Fmt(2, 1, 8000, 8) }     \* not PCM

FillBytes == {0, 255}

DataChunks ==
    { [id |-> "data", size |-> n, bytes |-> [k \in 1..n |-> b]] :
        n \in 0..MaxDataLen, b \in FillBytes }

OtherChunks == { [id |-> "LIST"] }

SubChunks == FmtChunks \cup DataChunks \cup OtherChunks

RECURSIVE SeqsUpTo(_, _)
SeqsUpTo(S, n) ==
    IF n = 0 THEN { <<>> }
    ELSE LET shorter == SeqsUpTo(S, n - 1) IN
         shorter \cup { Append(s, x) : s \in { t \in shorter : Len(t) = n - 1 }, x \in S }

File(i, f, cs) == [exists |-> TRUE, id |-> i, format |-> f, subchunks |-> cs]

\* Containers with the RIFF and WAVE magic carry every sub-chunk sequence;
\* those with a wrong magic carry at most one sub-chunk, since the
\* constructor throws before parseSubchunks (lines 50-57).
Files ==
    { File("RIFF", "WAVE", cs) : cs \in SeqsUpTo(SubChunks, MaxChunks) }
    \cup { File(m[1], m[2], cs) :
              m \in { <<"RIFX", "WAVE">>, <<"RIFF", "AVI ">>, <<"RIFX", "AVI ">> },
              cs \in SeqsUpTo(SubChunks, 1) }

---------------------------------------------------------------------------
\* Wave_read.

\* The object while its constructor runs.  fmt_seen, examined and divzero are
\* history fields: the number of `fmt ` chunks parsed, the number of
\* sub-chunks the loop looked at, and whether line 68 divided by zero.
NewReader ==
    [status |-> "constructing", err |-> NoErr,
     fmt_chunk_read |-> FALSE, data_chunk_read |-> FALSE,
     nchannels |-> 0, framerate |-> 0, sampwidth |-> 0, framesize |-> 0,
     nframes |-> 0, data_chunk |-> 0, cursor |-> 0,
     fmt_seen |-> 0, examined |-> 0, divzero |-> FALSE]

AbsentReader == [NewReader EXCEPT !.status = "absent"]

\* Variant: the format tag is not looked at.
read_fmt_chunk_AnyTag(s, chunk) ==
    LET sw == (chunk.wBitsPerSample + 7) \div 8 IN
    [s EXCEPT !.nchannels = chunk.wChannels, !.framerate = chunk.dwFrameRate,
              !.sampwidth = sw, !.framesize = chunk.wChannels * sw]

read_fmt_chunk(s, chunk) ==
    LET s1 == [s EXCEPT !.nchannels = chunk.wChannels,
                        !.framerate = chunk.dwFrameRate]
    IN  IF chunk.wFormatTag = WAVE_FORMAT_PCM
        THEN LET sw == (chunk.wBitsPerSample + 7) \div 8 IN
             [s1 EXCEPT !.sampwidth = sw, !.framesize = s1.nchannels * sw]
        ELSE [s1 EXCEPT !.err = UnsupportedFormatError]

\* Variant: a `data` chunk is accepted whether or not `fmt ` was read.
ScanChunk_NoOrderCheck(s, chunk, i) ==
    LET s0 == [s EXCEPT !.examined = @ + 1] IN
    IF chunk.id = "fmt "
    THEN LET t == read_fmt_chunk(s0, chunk) IN
         IF t.err # NoErr THEN t
         ELSE [t EXCEPT !.fmt_chunk_read = TRUE, !.fmt_seen = @ + 1]
    ELSE IF chunk.id = "data"
    THEN LET t == [s0 EXCEPT !.data_chunk = i, !.data_chunk_read = TRUE] IN
         IF t.framesize = 0
         THEN [t EXCEPT !.divzero = TRUE]
         ELSE [t EXCEPT !.nframes = chunk.size \div t.framesize]
    ELSE s0

\* Variant: fmt_chunk_read is set for every chunk that is not `data`.
ScanChunk_FlagAnyChunk(s, chunk, i) ==
    LET s0 == [s EXCEPT !.examined = @ + 1] IN
    IF chunk.id = "data"
    THEN IF ~s0.fmt_chunk_read
         THEN [s0 EXCEPT !.err = OrderError]
         ELSE LET t == [s0 EXCEPT !.data_chunk = i, !.data_chunk_read = TRUE] IN
              IF t.framesize = 0
              THEN [t EXCEPT !.divzero = TRUE]
              ELSE [t EXCEPT !.nframes = chunk.size \div t.framesize]
    ELSE IF chunk.id = "fmt "
    THEN LET t == read_fmt_chunk(s0, chunk) IN
         IF t.err # NoErr THEN t
         ELSE [t EXCEPT !.fmt_chunk_read = TRUE, !.fmt_seen = @ + 1]
    ELSE [s0 EXCEPT !.fmt_chunk_read = TRUE]

\* One iteration of the loop of the constructor (lines 59-70) on chunk i.
ScanChunk(s, chunk, i) ==
    LET s0 == [s EXCEPT !.examined = @ + 1] IN
    IF chunk.id = "fmt "
    THEN LET t == read_fmt_chunk(s0, chunk) IN
         IF t.err # NoErr THEN t
         ELSE [t EXCEPT !.fmt_chunk_read = TRUE, !.fmt_seen = @ + 1]
    ELSE IF chunk.id = "data"
    THEN IF ~s0.fmt_chunk_read
         THEN [s0 EXCEPT !.err = OrderError]
         ELSE LET t == [s0 EXCEPT !.data_chunk = i, !.data_chunk_read = TRUE] IN
              IF t.framesize = 0
              THEN [t EXCEPT !.divzero = TRUE]
              ELSE [t EXCEPT !.nframes = chunk.size \div t.framesize]
    ELSE s0

\* Variant: the loop has no break after a `data` chunk.
RECURSIVE ScanFrom_NoBreak(_, _, _)
ScanFrom_NoBreak(s, chunks, i) ==
    IF i > Len(chunks) \/ s.err # NoErr
    THEN s
    ELSE ScanFrom_NoBreak(ScanChunk(s, chunks[i], i), chunks, i + 1)

\* The loop (lines 58-71): stops at the end, at a throw, or at the break.
RECURSIVE ScanFrom(_, _, _)
ScanFrom(s, chunks, i) ==
    IF i > Len(chunks) \/ s.err # NoErr \/ s.data_chunk_read
    THEN s
    ELSE ScanFrom(ScanChunk(s, chunks[i], i), chunks, i + 1)

\* Variant: the check fails only when both chunks are missing.
CheckFound_BothMissing(s) ==
    IF s.err = NoErr /\ (~s.fmt_chunk_read /\ ~s.data_chunk_read)
    THEN [s EXCEPT !.err = MissingChunkError]
    ELSE s

\* The check after the loop (lines 72-73).
CheckFound(s) ==
    IF s.err = NoErr /\ (~s.fmt_chunk_read \/ ~s.data_chunk_read)
    THEN [s EXCEPT !.err = MissingChunkError]
    ELSE s

\* The constructor up to the resolution of the division of line 68.
Construct(f) ==
    IF f.id # "RIFF" THEN [NewReader EXCEPT !.err = FormatErrorRIFF]
    ELSE IF f.format # "WAVE" THEN [NewReader EXCEPT !.err = FormatErrorWAVE]
    ELSE CheckFound(ScanFrom(NewReader, f.subchunks, 1))

\* What a division by zero (undefined behaviour) may leave in nframes when the
\* build does not trap.
UBFrames == {0, 1}

\* The outcomes of the constructor: a thrown error, a trap, or an object.
Constructed(f) ==
    LET s == Construct(f) IN
    IF s.divzero
    THEN { [s EXCEPT !.status = "crashed"] }
         \cup { [s EXCEPT !.status = "open", !.nframes = n] : n \in UBFrames }
    ELSE { [s EXCEPT !.status = IF s.err = NoErr THEN "open" ELSE "failed"] }

\* Wave_read::close (lines 80-82).
ReaderClose(c) == ChunkClose(c)

\* readframes(buffer, n) (lines 84-86): the bytes read and the session after.
readframes(s, data, n) ==
    [bytes |-> [k \in 1..(n * s.framesize) |-> data.bytes[s.cursor + k]],
     session |-> [s EXCEPT !.cursor = @ + n * s.framesize]]

---------------------------------------------------------------------------
\* readwave: sample decoding.

\* memcpy of sw (<= 4) little-endian bytes into a zeroed int32, then the
\* width-specific correction (lines 181-188).
DecodeSample(bs, sw) ==
    IF sw = 1 THEN bs[1] - 128
    ELSE IF sw = 2
    THEN LET v == bs[1] + 256 * bs[2] IN IF v >= 32768 THEN v - 65536 ELSE v
    ELSE IF sw = 3
    THEN LET v == bs[1] + 256 * bs[2] + 65536 * bs[3] IN
         IF v >= 8388608 THEN v - 16777216 ELSE v
    ELSE IF sw = 4
    THEN bs[1] + 256 * bs[2] + 65536 * bs[3]
         + 16777216 * (IF bs[4] >= 128 THEN bs[4] - 256 ELSE bs[4])
    ELSE 0

RECURSIVE SumSamples(_, _, _, _)
SumSamples(buf, sw, nch, j) ==
    IF j >= nch THEN 0
    ELSE DecodeSample([k \in 1..sw |-> buf[j * sw + k]], sw)
         + SumSamples(buf, sw, nch, j + 1)

\* One decoded frame: acc = sum of sample * (1/nchannels), kept as the exact
\* pair (sum of the samples, nchannels).
DecodeFrame(buf, s) ==
    [sum |-> SumSamples(buf, s.sampwidth, s.nchannels, 0), nch |-> s.nchannels]

\* Variant: the loop stops one frame early.
RECURSIVE DecodeFrom_OneShort(_, _, _)
DecodeFrom_OneShort(s, data, i) ==
    IF i >= s.nframes THEN [out |-> <<>>, session |-> s]
    ELSE LET r == readframes(s, data, 1)
             rest == DecodeFrom_OneShort(r.session, data, i + 1)
         IN  [out |-> <<DecodeFrame(r.bytes, s)>> \o rest.out, session |-> rest.session]

\* The frames of the loop of lines 177-193, from frame i on.
RECURSIVE DecodeFrom(_, _, _)
DecodeFrom(s, data, i) ==
    IF i > s.nframes THEN [out |-> <<>>, session |-> s]
    ELSE LET r == readframes(s, data, 1)
             rest == DecodeFrom(r.session, data, i + 1)
         IN  [out |-> <<DecodeFrame(r.bytes, s)>> \o rest.out, session |-> rest.session]

\* What a sample holds after a memcpy of more than 4 bytes into an int32
\* (undefined behaviour) when the process survives it.
UBSamples == {0, -1}

\* The caller's variables before readwave is called.
Caller0 == [output |-> <<[sum |-> 5, nch |-> 1]>>, Fs |-> 44100, ret |-> "notcalled"]

\* readwave (lines 162-196): the outcomes for file f, as pairs of the
\* caller's variables and the final state of the local Wave_read.
ReadWaveOutcomes(f, c) ==
    IF ~f.exists
    THEN { [caller |-> [output |-> <<>>, Fs |-> 0, ret |-> "false"],
            session |-> AbsentReader, closed |-> FALSE] }
    ELSE UNION {
        IF s.status = "crashed"
        THEN { [caller |-> [c EXCEPT !.ret = "crashed"], session |-> s, closed |-> FALSE] }
        ELSE IF s.status = "failed"
        THEN { [caller |-> [c EXCEPT !.ret = "threw"], session |-> s, closed |-> FALSE] }
        ELSE IF s.sampwidth > 4 /\ s.nframes > 0 /\ s.nchannels > 0
        THEN { [caller |-> [c EXCEPT !.ret = "crashed", !.Fs = s.framerate],
                session |-> s, closed |-> FALSE] }
             \cup { [caller |-> [output |-> [i \in 1..s.nframes |->
                                                [sum |-> v, nch |-> s.nchannels]],
                                 Fs |-> s.framerate, ret |-> "true"],
                      session |-> [s EXCEPT !.status = "destroyed",
                                            !.cursor = s.nframes * s.framesize],
                      closed |-> TRUE] : v \in UBSamples }
        ELSE LET d == DecodeFrom(s, f.subchunks[s.data_chunk], 1) IN
             { [caller |-> [output |-> d.out, Fs |-> s.framerate, ret |-> "true"],
                session |-> [d.session EXCEPT !.status = "destroyed"],
                closed |-> TRUE] }
        : s \in Constructed(f) }

---------------------------------------------------------------------------
\* Reader actions.

\* No call of writewave is part of the run.
NoWave == [ret |-> "none"]

NoCall == [op |-> "none", err |-> NoErr, arg |-> 0]

ReaderRun == wr.status = "absent"

\* Wave_read f(file).
WaveReadCtor ==
    /\ ReaderRun /\ file.exists
    /\ rd.status = "absent" /\ caller.ret = "notcalled"
    /\ \E s \in Constructed(file) :
         /\ rd' = s
         /\ last' = [op |-> "Wave_read", err |-> s.err, arg |-> 0]
    /\ UNCHANGED <<wave, file, caller, wr, wlog, res>>

\* f.close().
WaveReadClose ==
    /\ ReaderRun /\ rd.status = "open"
    /\ res.closes < MaxCloses
    /\ res' = ReaderClose(res)
    /\ last' = [op |-> "close", err |-> NoErr, arg |-> 0]
    /\ UNCHANGED <<wave, file, rd, caller, wr, wlog>>

\* ~Wave_read() (lines 76-78).
WaveReadDtor ==
    /\ ReaderRun /\ rd.status = "open"
    /\ res' = ReaderClose(res)
    /\ rd' = [rd EXCEPT !.status = "destroyed"]
    /\ last' = [op |-> "~Wave_read", err |-> NoErr, arg |-> 0]
    /\ UNCHANGED <<wave, file, caller, wr, wlog>>

\* readwave(filename, output, Fs).
ReadWave ==
    /\ ReaderRun
    /\ rd.status = "absent" /\ caller.ret = "notcalled"
    /\ \E o \in ReadWaveOutcomes(file, caller) :
         /\ caller' = o.caller
         /\ rd' = o.session
         /\ res' = IF o.closed THEN ReaderClose(res) ELSE res
         /\ last' = [op |-> "readwave", err |-> o.session.err, arg |-> 0]
    /\ UNCHANGED <<wave, file, wr, wlog>>

---------------------------------------------------------------------------
\* Wave_write.

\* The object after its constructor (lines 98-104).
NewWriter ==
    [status |-> "open", headerwritten |-> FALSE,
     nframes |-> 0, nchannels |-> 0, framerate |-> 0, sampwidth |-> 0]

AbsentWriter == [NewWriter EXCEPT !.status = "absent"]

\* The constructor writes the "WAVE" marker into the RIFF chunk (line 103).
NewLog == << [op |-> "write", id |-> "RIFF", n |-> 4] >>

\* Narrowing casts of the header fields.  Every natural the model can hold
\* is below 2^31, so the cast to uint32_t keeps it.
ToU16(x) == x % U16
ToU32(x) == x

\* Variant: the setter does not look at headerwritten.
setnchannels_NoStateCheck(w, nchannels_) ==
    IF nchannels_ < 1 THEN [w |-> w, err |-> BadChannels]
    ELSE [w |-> [w EXCEPT !.nchannels = nchannels_], err |-> NoErr]

setnchannels(w, nchannels_) ==
    IF w.headerwritten THEN [w |-> w, err |-> StateError]
    ELSE IF nchannels_ < 1 THEN [w |-> w, err |-> BadChannels]
    ELSE [w |-> [w EXCEPT !.nchannels = nchannels_], err |-> NoErr]

\* Variant: the upper limit of the sample width is not checked.
setsampwidth_NoUpperLimit(w, sampwidth_) ==
    IF w.headerwritten THEN [w |-> w, err |-> StateError]
    ELSE IF sampwidth_ < 1 THEN [w |-> w, err |-> BadSampWidth]
    ELSE [w |-> [w EXCEPT !.sampwidth = sampwidth_], err |-> NoErr]

setsampwidth(w, sampwidth_) ==
    IF w.headerwritten THEN [w |-> w, err |-> StateError]
    ELSE IF sampwidth_ < 1 \/ sampwidth_ > 4 THEN [w |-> w, err |-> BadSampWidth]
    ELSE [w |-> [w EXCEPT !.sampwidth = sampwidth_], err |-> NoErr]

setframerate(w, framerate_) ==
    IF w.headerwritten THEN [w |-> w, err |-> StateError]
    ELSE IF framerate_ <= 0 THEN [w |-> w, err |-> BadFrameRate]
    ELSE [w |-> [w EXCEPT !.framerate = framerate_], err |-> NoErr]

\* The WaveFormatEx the writer emits (lines 147-153).
HeaderOf(w) ==
    [wFormatTag |-> WAVE_FORMAT_PCM,
     wChannels |-> ToU16(w.nchannels),
     dwFrameRate |-> ToU32(w.framerate),
     dwAvgBytesPerSec |-> ToU32(w.nchannels * w.framerate * w.sampwidth),
     wBlockAlign |-> ToU16(w.nchannels * w.sampwidth),
     wBitsPerSample |-> ToU16(w.sampwidth * 8)]

\* Variant: the `data` chunk is added before the `fmt ` payload is written.
HeaderCalls_DataFirst(w) ==
    << [op |-> "addSubchunk", id |-> "fmt "],
       [op |-> "addSubchunk", id |-> "data"],
       [op |-> "write", id |-> "fmt ", n |-> 16, fmt |-> HeaderOf(w)] >>

\* The accessor calls of a header finalization, in the order made (lines 145-156).
HeaderCalls(w) ==
    << [op |-> "addSubchunk", id |-> "fmt "],
       [op |-> "write", id |-> "fmt ", n |-> 16, fmt |-> HeaderOf(w)],
       [op |-> "addSubchunk", id |-> "data"] >>

\* Variant: headerwritten is never set.
ensure_header_written_NoFlag(w, log) ==
    IF ~w.headerwritten
    THEN IF w.nchannels = 0 THEN [w |-> w, log |-> log, err |-> ChannelsUnset]
         ELSE IF w.sampwidth = 0 THEN [w |-> w, log |-> log, err |-> SampWidthUnset]
         ELSE IF w.framerate = 0 THEN [w |-> w, log |-> log, err |-> FrameRateUnset]
         ELSE [w |-> w, log |-> log \o HeaderCalls(w), err |-> NoErr]
    ELSE [w |-> w, log |-> log, err |-> NoErr]

\* Variant: the frame rate is not checked.
ensure_header_written_NoRateCheck(w, log) ==
    IF ~w.headerwritten
    THEN IF w.nchannels = 0 THEN [w |-> w, log |-> log, err |-> ChannelsUnset]
         ELSE IF w.sampwidth = 0 THEN [w |-> w, log |-> log, err |-> SampWidthUnset]
         ELSE [w |-> [w EXCEPT !.headerwritten = TRUE],
               log |-> log \o HeaderCalls(w), err |-> NoErr]
    ELSE [w |-> w, log |-> log, err |-> NoErr]

\* _ensure_header_written (lines 139-159).
ensure_header_written(w, log) ==
    IF ~w.headerwritten
    THEN IF w.nchannels = 0 THEN [w |-> w, log |-> log, err |-> ChannelsUnset]
         ELSE IF w.sampwidth = 0 THEN [w |-> w, log |-> log, err |-> SampWidthUnset]
         ELSE IF w.framerate = 0 THEN [w |-> w, log |-> log, err |-> FrameRateUnset]
         ELSE [w |-> [w EXCEPT !.headerwritten = TRUE],
               log |-> log \o HeaderCalls(w), err |-> NoErr]
    ELSE [w |-> w, log |-> log, err |-> NoErr]

\* Variant: the byte count leaves out the channel count.
writeframes_NoChannels(w, log, nframes_) ==
    LET bytes == nframes_ * w.sampwidth
        h == ensure_header_written(w, log)
    IN  IF h.err # NoErr THEN h
        ELSE [h EXCEPT !.log = Append(@, [op |-> "write", id |-> "data", n |-> bytes])]

\* writeframes (lines 128-132).
writeframes(w, log, nframes_) ==
    LET bytes == nframes_ * w.sampwidth * w.nchannels
        h == ensure_header_written(w, log)
    IN  IF h.err # NoErr THEN h
        ELSE [h EXCEPT !.log = Append(@, [op |-> "write", id |-> "data", n |-> bytes])]

\* Wave_write::close (lines 134-137).
WriterClose(w, log, c) ==
    LET h == ensure_header_written(w, log) IN
    IF h.err # NoErr THEN [w |-> h.w, log |-> h.log, res |-> c, err |-> h.err]
    ELSE [w |-> h.w, log |-> h.log, res |-> ChunkClose(c), err |-> NoErr]

\* How the destructor ends when its close() throws: a noexcept destructor
\* terminates the process, an older build lets the exception out.
DtorThrowOutcomes == {"terminated", "destroyed"}

---------------------------------------------------------------------------
\* Writer inputs and views of the log.

ChannelArgs == {0, 1, 2, 65536}
WidthArgs == {0, 1, 2, 3, 4, 5}
RateArgs == {0, 8000}
FrameArgs == {0, 1, 2}

\* The sub-chunks created, in order.
Created(log) ==
    LET adds == SelectSeq(log, LAMBDA e : e.op = "addSubchunk") IN
    [k \in 1..Len(adds) |-> adds[k].id]

\* The writes of payload into the `data` sub-chunk.
DataWrites(log) == SelectSeq(log, LAMBDA e : e.op = "write" /\ e.id = "data")

RECURSIVE SumBytes(_)
SumBytes(ws) == IF ws = <<>> THEN 0 ELSE Head(ws).n + SumBytes(Tail(ws))

---------------------------------------------------------------------------
\* Writer actions.

WriterRun == wr.status = "open"

SetChannels ==
    /\ WriterRun
    /\ \E n \in ChannelArgs :
         LET r == setnchannels(wr, n) IN
         /\ wr' = r.w
         /\ last' = [op |-> "setnchannels", err |-> r.err, arg |-> n]
    /\ UNCHANGED <<wave, file, rd, caller, wlog, res>>

SetSampleWidth ==
    /\ WriterRun
    /\ \E n \in WidthArgs :
         LET r == setsampwidth(wr, n) IN
         /\ wr' = r.w
         /\ last' = [op |-> "setsampwidth", err |-> r.err, arg |-> n]
    /\ UNCHANGED <<wave, file, rd, caller, wlog, res>>

SetFrameRate ==
    /\ WriterRun
    /\ \E n \in RateArgs :
         LET r == setframerate(wr, n) IN
         /\ wr' = r.w
         /\ last' = [op |-> "setframerate", err |-> r.err, arg |-> n]
    /\ UNCHANGED <<wave, file, rd, caller, wlog, res>>

WriteFrames ==
    /\ WriterRun
    /\ Len(DataWrites(wlog)) < MaxWrites
    /\ \E n \in FrameArgs :
         LET r == writeframes(wr, wlog, n) IN
         /\ wr' = r.w
         /\ wlog' = r.log
         /\ last' = [op |-> "writeframes", err |-> r.err, arg |-> n]
    /\ UNCHANGED <<wave, file, rd, caller, res>>

Close ==
    /\ WriterRun
    /\ res.closes < MaxCloses
    /\ LET r == WriterClose(wr, wlog, res) IN
         /\ wr' = r.w
         /\ wlog' = r.log
         /\ res' = r.res
         /\ last' = [op |-> "close", err |-> r.err, arg |-> 0]
    /\ UNCHANGED <<wave, file, rd, caller>>

\* ~Wave_write() (lines 106-108).
WaveWriteDtor ==
    /\ WriterRun
    /\ LET r == WriterClose(wr, wlog, res) IN
         /\ wlog' = r.log
         /\ res' = r.res
         /\ last' = [op |-> "~Wave_write", err |-> r.err, arg |-> 0]
         /\ IF r.err = NoErr
            THEN wr' = [r.w EXCEPT !.status = "destroyed"]
            ELSE \E o \in DtorThrowOutcomes : wr' = [r.w EXCEPT !.status = o]
    /\ UNCHANGED <<wave, file, rd, caller>>

---------------------------------------------------------------------------
\* Specification.

InitRead ==
    /\ file \in Files \cup {NoFile}
    /\ rd = AbsentReader
    /\ caller = Caller0
    /\ wr = AbsentWriter
    /\ wlog = <<>>
    /\ res = OpenResource
    /\ last = NoCall
    /\ wave = NoWave

InitWrite ==
    /\ file = NoFile
    /\ rd = AbsentReader
    /\ caller = [Caller0 EXCEPT !.ret = "none"]
    /\ wr = NewWriter
    /\ wlog = NewLog
    /\ res = OpenResource
    /\ last = [op |-> "Wave_write", err |-> NoErr, arg |-> 0]
    /\ wave = NoWave

Init == InitRead \/ InitWrite

Next ==
    \/ WaveReadCtor
    \/ WaveReadClose
    \/ WaveReadDtor
    \/ ReadWave
    \/ SetChannels
    \/ SetSampleWidth
    \/ SetFrameRate
    \/ WriteFrames
    \/ Close
    \/ WaveWriteDtor

Spec == Init /\ [][Next]_vars

---------------------------------------------------------------------------
\* Views of a container used by the properties.

ValidMagic(f) == f.exists /\ f.id = "RIFF" /\ f.format = "WAVE"

\* The sub-chunks of f with the given id, by position.
Positions(f, id) == { i \in 1..Len(f.subchunks) : f.subchunks[i].id = id }

\* The `fmt ` chunks that precede position i.
FmtBefore(f, i) == { j \in Positions(f, "fmt ") : j < i }

\* A `data` chunk comes before any `fmt ` chunk.
DataBeforeFmt(f) ==
    /\ ValidMagic(f)
    /\ \E i \in Positions(f, "data") : FmtBefore(f, i) = {}

\* The `fmt ` chunks whose format tag is not PCM.
BadFmt(f) == { i \in Positions(f, "fmt ") : f.subchunks[i].wFormatTag # 1 }

\* The scan reaches a `fmt ` chunk that is not PCM: no `data` chunk stops it before.
ParsesBadFmt(f) ==
    /\ ValidMagic(f)
    /\ \E i \in BadFmt(f) : \A j \in Positions(f, "data") : j > i

\* A Wave_read object exists (or existed until its destructor).
ReaderBuilt == rd.status \in {"open", "destroyed"}

\* The constructor was run, directly or by readwave.
ReaderTried == rd.status # "absent"

SetterOps == {"setnchannels", "setsampwidth", "setframerate"}
CloseOps == {"close", "~Wave_read", "~Wave_write"}
UnsetErrors == {ChannelsUnset, SampWidthUnset, FrameRateUnset}

\* Position in the log of the first call that satisfies P, 0 if none.
FirstCall(log, P(_)) ==
    IF \E i \in 1..Len(log) : P(log[i])
    THEN CHOOSE i \in 1..Len(log) : P(log[i]) /\ \A j \in 1..(i - 1) : ~P(log[j])
    ELSE 0

IsFmtWrite(e) == e.op = "write" /\ e.id = "fmt " /\ e.n = 16
IsDataAdd(e) == e.op = "addSubchunk" /\ e.id = "data"
IsDataWrite(e) == e.op = "write" /\ e.id = "data"

---------------------------------------------------------------------------
\* Properties.

\* C1: a container whose sub-chunks hold a `data` chunk before any `fmt `
\* chunk never yields a Wave_read object: whatever follows the `data` chunk,
\* the constructor (run directly or by readwave) ends with "data chunk before
\* fmt chunk".
C1_DataBeforeFmtIsOrderError ==
    DataBeforeFmt(file) =>
        /\ ~ReaderBuilt /\ rd.status # "crashed"
        /\ ReaderTried => (rd.status = "failed" /\ rd.err = OrderError
                           /\ last.err = OrderError)

\* C1 witness: the constructor has rejected a container in which a `fmt `
\* chunk follows the early `data` chunk.
C1_Witness ==
    /\ DataBeforeFmt(file) /\ last.op = "Wave_read" /\ rd.err = OrderError
    /\ Len(file.subchunks) = 3 /\ file.subchunks[3].id = "fmt "

\* C2: once headerwritten is set it stays set and no call changes nchannels,
\* sampwidth or framerate; every setter called from then on ends with "cannot
\* change parameters after starting to write".
C2_HeaderWrittenFreezesFormat ==
    [][wr.headerwritten =>
        /\ wr'.headerwritten
        /\ wr'.nchannels = wr.nchannels
        /\ wr'.sampwidth = wr.sampwidth
        /\ wr'.framerate = wr.framerate
        /\ last'.op \in SetterOps => last'.err = StateError]_vars

\* C2 witness: a setter was refused after the header was written.
C2_Witness ==
    wr.headerwritten /\ last.op = "setnchannels" /\ last.err = StateError

\* C3: in every state of a writer run the sub-chunks created are none, or
\* `fmt ` then `data` (each once); the 16-byte `fmt ` payload is written
\* before the `data` chunk is added, and every write into `data` comes after
\* the write of the `fmt ` payload.
C3_FmtThenData ==
    wr.status # "absent" =>
        /\ Created(wlog) \in { <<>>, <<"fmt ", "data">> }
        /\ Len(SelectSeq(wlog, IsFmtWrite)) <= 1
        /\ \A i \in 1..Len(wlog) :
             (IsDataAdd(wlog[i]) \/ IsDataWrite(wlog[i])) =>
                 (FirstCall(wlog, IsFmtWrite) \in 1..(i - 1))
        /\ \A i \in 1..Len(wlog) :
             IsDataWrite(wlog[i]) => (FirstCall(wlog, IsDataAdd) \in 1..(i - 1))

\* C3 witness: setters, two writeframes calls and a close have been made.
C3_Witness ==
    Len(DataWrites(wlog)) = 2 /\ res.closes >= 1 /\ last.op = "close"

\* C4: writeframes on a session whose header is not written and with
\* nchannels, sampwidth or framerate still 0 throws one of the "not
\* specified" errors and emits nothing: the log, the session and the flag are
\* as before and no sub-chunk exists.
C4_WriteFramesUnsetEmitsNothing ==
    [][(/\ last'.op = "writeframes"
        /\ ~wr.headerwritten
        /\ (wr.nchannels = 0 \/ wr.sampwidth = 0 \/ wr.framerate = 0)) =>
            /\ last'.err \in UnsetErrors
            /\ wlog' = wlog
            /\ wr' = wr
            /\ ~wr'.headerwritten
            /\ Created(wlog') = <<>>
            /\ DataWrites(wlog') = <<>>]_vars

\* C4 witness: writeframes was refused with two fields set and the third not.
C4_Witness ==
    /\ last.op = "writeframes" /\ last.err = FrameRateUnset
    /\ wr.nchannels # 0 /\ wr.sampwidth # 0 /\ ~wr.headerwritten

\* C5: after a close (explicit or by the destructor) of a session to which
\* no frames were written, the header is finalized (`fmt ` and an empty
\* `data` exist) and the resource is released, whichever setters were called.
C5_CloseAlwaysFinalizes ==
    (last.op \in {"close", "~Wave_write"} /\ wr.status # "absent"
     /\ DataWrites(wlog) = <<>>) =>
        /\ wr.headerwritten
        /\ Created(wlog) = <<"fmt ", "data">>
        /\ ~res.open /\ res.releases = 1

\* C6: once a close has succeeded, a further close or the destructor of a
\* reader or a writer session makes no call on the chunks, leaves the
\* session's fields as they are, succeeds, and releases nothing: the
\* resource was released once and stays released.
C6_CloseIdempotent ==
    [][(res.closes >= 1 /\ last'.op \in CloseOps) =>
        /\ last'.err = NoErr
        /\ wlog' = wlog
        /\ [wr' EXCEPT !.status = wr.status] = wr
        /\ [rd' EXCEPT !.status = rd.status] = rd
        /\ res.releases = 1 /\ res'.releases = 1
        /\ ~res.open /\ ~res'.open]_vars

\* C6 witness: a writer session with frames written was closed twice.
C6_Witness ==
    /\ wr.status = "open" /\ res.closes = 2 /\ last.op = "close"
    /\ Len(DataWrites(wlog)) >= 1

\* C7: when the scan reaches a `fmt ` chunk whose format tag is not 1 the
\* constructor ends with "unknown format"; readwave then leaves the caller's
\* output and Fs as they were and reads no frame.
C7_UnsupportedFormatNoOutput ==
    (ParsesBadFmt(file) /\ ReaderTried) =>
        /\ rd.status = "failed" /\ rd.err = UnsupportedFormatError
        /\ rd.cursor = 0
        /\ caller.output = Caller0.output /\ caller.Fs = Caller0.Fs
        /\ last.op = "readwave" => caller.ret = "threw"

\* C7 witness: readwave met a non-PCM `fmt ` chunk followed by a `data` chunk.
C7_Witness ==
    /\ last.op = "readwave" /\ rd.err = UnsupportedFormatError
    /\ Positions(file, "data") # {}

\* C8: with valid magic, a Wave_read object exists only if the container
\* holds a `fmt ` and a `data` chunk, and then it has both the descriptor and
\* the data-chunk reference; when the scan runs to the end without finding
\* `data` the constructor ends with "fmt chunk and/or data chunk missing".
C8_MissingChunk ==
    /\ ReaderBuilt =>
         /\ Positions(file, "fmt ") # {} /\ Positions(file, "data") # {}
         /\ rd.fmt_chunk_read /\ rd.data_chunk_read
         /\ rd.data_chunk \in Positions(file, "data")
    /\ (ValidMagic(file) /\ ReaderTried /\ Positions(file, "data") = {}
        /\ BadFmt(file) = {}) =>
         (rd.status = "failed" /\ rd.err = MissingChunkError)

\* C8 witness: the constructor found `fmt ` but no `data`.
C8_Witness ==
    rd.err = MissingChunkError /\ rd.fmt_chunk_read /\ last.op = "Wave_read"

\* C9 as stated: when a `data` chunk is accepted, exactly one `fmt ` chunk
\* precedes it.  (Stated of the constructions free of the division by zero,
\* so that a violation is a run with defined behaviour only.)
C9_ExactlyOneFmt ==
    (rd.data_chunk_read /\ ~rd.divzero) =>
        Cardinality(FmtBefore(file, rd.data_chunk)) = 1

\* C9 amended: when a `data` chunk is accepted, at least one `fmt ` chunk
\* precedes it, and every `fmt ` chunk that precedes it was parsed.
C9_AtLeastOneFmt ==
    rd.data_chunk_read =>
        /\ Cardinality(FmtBefore(file, rd.data_chunk)) >= 1
        /\ rd.fmt_seen = Cardinality(FmtBefore(file, rd.data_chunk))

\* C9 witness: a session was built from a container with two `fmt ` chunks
\* before its `data` chunk.
C9_Witness ==
    /\ ReaderBuilt /\ ~rd.divzero
    /\ Cardinality(FmtBefore(file, rd.data_chunk)) = 2

\* C10: every Wave_read object has nchannels >= 1, sampwidth in 1..4,
\* framerate > 0 and framesize = nchannels * sampwidth >= 1, and line 68
\* never divides by a frame size of 0.
C10_ValidDescriptor ==
    /\ ~rd.divzero
    /\ ReaderBuilt =>
         /\ rd.nchannels >= 1
         /\ rd.sampwidth \in 1..4
         /\ rd.framerate > 0
         /\ rd.framesize = rd.nchannels * rd.sampwidth
         /\ rd.framesize >= 1

---------------------------------------------------------------------------
\* Views used by the properties of the frame count, the scan and the header.

\* The first `data` chunk of f (f has one).
FirstData(f) == CHOOSE p \in Positions(f, "data") : \A q \in Positions(f, "data") : p <= q

\* f cut after its sub-chunk p.
Truncate(f, p) == [f EXCEPT !.subchunks = SubSeq(@, 1, p)]

\* The `fmt ` chunk a reader finds when the writer's header h is on disk.
AsFmtChunk(h) ==
    [id |-> "fmt ", wFormatTag |-> h.wFormatTag, wChannels |-> h.wChannels,
     dwFrameRate |-> h.dwFrameRate, wBitsPerSample |-> h.wBitsPerSample]

\* The header the writer has emitted (the writer has emitted one).
EmittedHeader(log) == log[FirstCall(log, IsFmtWrite)].fmt

---------------------------------------------------------------------------
\* Properties (continued).

\* C11: for a data chunk of B bytes and a frame size F >= 1 the session
\* records B \div F frames; readwave returns B \div F samples and reads
\* (B \div F) * F bytes from the chunk, leaving the last B % F bytes unread.
C11_FrameCount ==
    (ReaderBuilt /\ ~rd.divzero) =>
        LET B == file.subchunks[rd.data_chunk].size
            F == rd.framesize
        IN  /\ rd.nframes = B \div F
            /\ (last.op = "readwave" /\ caller.ret = "true") =>
                 /\ Len(caller.output) = B \div F
                 /\ rd.cursor = (B \div F) * F
                 /\ B - rd.cursor = B % F

\* C11 witness: readwave decoded a chunk whose length is not a multiple of
\* the frame size and that holds at least one frame.
C11_Witness ==
    /\ last.op = "readwave" /\ caller.ret = "true" /\ ~rd.divzero
    /\ rd.nframes >= 1
    /\ file.subchunks[rd.data_chunk].size % rd.framesize # 0

\* C16: on a session whose header is not written, setnchannels(0),
\* setsampwidth(w) with w < 1 or w > 4 and setframerate(0) throw their "bad
\* ..." error and leave the session as it was; every other argument is
\* stored in the setter's own field and nothing else changes.
C16_SettersValidate ==
    [][(last'.op \in SetterOps /\ ~wr.headerwritten) =>
        LET a == last'.arg IN
        /\ last'.op = "setnchannels" =>
             IF a < 1 THEN last'.err = BadChannels /\ wr' = wr
             ELSE last'.err = NoErr /\ wr' = [wr EXCEPT !.nchannels = a]
        /\ last'.op = "setsampwidth" =>
             IF a < 1 \/ a > 4 THEN last'.err = BadSampWidth /\ wr' = wr
             ELSE last'.err = NoErr /\ wr' = [wr EXCEPT !.sampwidth = a]
        /\ last'.op = "setframerate" =>
             IF a = 0 THEN last'.err = BadFrameRate /\ wr' = wr
             ELSE last'.err = NoErr /\ wr' = [wr EXCEPT !.framerate = a]
        /\ ~wr'.headerwritten /\ wlog' = wlog]_vars

\* C16 witness: setsampwidth(5) was refused on a session with the channel
\* count already set.
C16_Witness ==
    /\ last.op = "setsampwidth" /\ last.arg = 5 /\ last.err = BadSampWidth
    /\ wr.nchannels = 2 /\ wr.sampwidth = 0 /\ ~wr.headerwritten

\* C18: the scan stops at the first `data` chunk: no sub-chunk after it is
\* looked at, and the construction ends as it does on the container cut
\* after that chunk (same error or success, same descriptor, frame size,
\* frame count and data-chunk reference).
C18_FirstDataWins ==
    (ValidMagic(file) /\ ReaderTried /\ Positions(file, "data") # {}) =>
        LET p == FirstData(file) IN
        /\ rd.examined <= p
        /\ \E t \in Constructed(Truncate(file, p)) :
             /\ t.err = rd.err
             /\ (t.status = "open") = ReaderBuilt
             /\ (t.status = "crashed") = (rd.status = "crashed")
             /\ t.nchannels = rd.nchannels /\ t.sampwidth = rd.sampwidth
             /\ t.framerate = rd.framerate /\ t.framesize = rd.framesize
             /\ t.nframes = rd.nframes /\ t.data_chunk = rd.data_chunk

\* C18 witness: a session was built from a container whose `data` chunk is
\* followed by a `fmt ` chunk that is not PCM.
C18_Witness ==
    /\ ReaderBuilt /\ ~rd.divzero /\ Len(file.subchunks) = 3 /\ rd.data_chunk = 2
    /\ file.subchunks[3].id = "fmt " /\ file.subchunks[3].wFormatTag # 1

\* C19: a successful writeframes(n) appends one write of n * nchannels *
\* sampwidth bytes to the `data` sub-chunk (after the header calls when it is
\* the first), so the bytes written to `data` grow by exactly that count and
\* no other chunk receives them.
C19_BytesAppended ==
    [][(last'.op = "writeframes" /\ last'.err = NoErr) =>
        LET bytes == last'.arg * wr'.nchannels * wr'.sampwidth
            ev == [op |-> "write", id |-> "data", n |-> bytes]
        IN  /\ DataWrites(wlog') = Append(DataWrites(wlog), ev)
            /\ wlog'[Len(wlog')] = ev
            /\ wr.headerwritten => wlog' = Append(wlog, ev)
            /\ SumBytes(DataWrites(wlog')) = SumBytes(DataWrites(wlog)) + bytes]_vars

\* C19 witness: two writeframes calls with frames, 2 channels of 3 bytes.
C19_Witness ==
    /\ last.op = "writeframes" /\ last.err = NoErr
    /\ wr.nchannels = 2 /\ wr.sampwidth = 3
    /\ Len(DataWrites(wlog)) = 2
    /\ DataWrites(wlog)[1].n = 6 /\ DataWrites(wlog)[2].n = 12

\* C20: the header a writer emits, parsed by the reader, gives back the
\* writer's channel count, frame rate and sample width and the frame size
\* nchannels * sampwidth, for every value the setters accepted.
C20_HeaderRoundTrip ==
    wr.headerwritten =>
        LET h == EmittedHeader(wlog)
            t == read_fmt_chunk(NewReader, AsFmtChunk(h))
        IN  /\ t.err = NoErr
            /\ t.nchannels = wr.nchannels
            /\ t.framerate = wr.framerate
            /\ t.sampwidth = wr.sampwidth
            /\ t.framesize = wr.nchannels * wr.sampwidth

---------------------------------------------------------------------------
\* writewave: quantization (lines 204-213).
\*
\* A float input value is the pair [n, k], standing for n / 2^k (k >= 0).
\* The model's integers are 32-bit, so no operator below forms 2^31 or more.

V(n, k) == [n |-> n, k |-> k]

Abs(a) == IF a < 0 THEN -a ELSE a

\* |x| > 1.  (With k >= 31, |n| < 2^31 <= 2^k.)
Exceeds1(x) == x.k < 31 /\ Abs(x.n) > 2 ^ x.k

\* Lines 207-209.
Clip(x) ==
    IF Exceeds1(x) THEN (IF x.n > 0 THEN V(1, 0) ELSE V(-1, 0)) ELSE x

\* |c * 2^(8w)| >= 2^e, for a clipped c.
ScaledAtLeast(c, w, e) ==
    LET d == e - 8 * w + c.k IN
    IF d <= 0 THEN c.n # 0
    ELSE d < 31 /\ Abs(c.n) >= 2 ^ d

\* c * 2^(8w) = -2^31.
ScaledIsIntMin(c, w) ==
    LET d == 31 - 8 * w + c.k IN
    d >= 0 /\ d < 31 /\ c.n = -(2 ^ d)

\* The number of bits of a >= 0.
RECURSIVE BitLen(_)
BitLen(a) == IF a = 0 THEN 0 ELSE 1 + BitLen(a \div 2)

\* num (an integer numerator over a fixed power of two) rounded to the 24
\* significant bits of a float, ties to even.
RoundFloat(num) ==
    LET a == Abs(num)
        d == BitLen(a) - 24
    IN  IF d <= 0 THEN num
        ELSE LET q == a \div (2 ^ d)
                 r == a % (2 ^ d)
                 half == 2 ^ (d - 1)
                 up == r > half \/ (r = half /\ q % 2 = 1)
                 m == (IF up THEN q + 1 ELSE q) * (2 ^ d)
             IN  IF num < 0 THEN -m ELSE m

\* Conversion of a float to int32_t truncates toward zero.
TruncDiv(num, den) ==
    IF num >= 0 THEN num \div den ELSE -((-num) \div den)

\* What the conversion of an out-of-range float to int32_t (undefined
\* behaviour) leaves, shifted right by one: the "indefinite" value INT_MIN,
\* or the value saturated by sign.
ConvOutcomes == {"indefinite", "saturate"}

OutOfRangeShifted(conv, positive) ==
    IF conv = "saturate" /\ positive THEN 1073741823 ELSE -1073741824

\* int32_t(c * scale + 1) >> 1 for a clipped c: [q, ub].
\*  - |c * scale| >= 2^31: the sum is out of the range of int32_t, except
\*    for c * scale = -2^31, whose float sum is -2^31 again;
\*  - 2^25 <= |c * scale| < 2^31: the float sum rounds back to c * scale,
\*    an even integer;
\*  - below: the sum is rounded to a float, truncated, and shifted.
Quantize(c, w, conv) ==
    IF c.n = 0 THEN [q |-> 1 \div 2, ub |-> FALSE]
    ELSE IF ScaledAtLeast(c, w, 31)
    THEN IF ScaledIsIntMin(c, w)
         THEN [q |-> -1073741824, ub |-> FALSE]
         ELSE [q |-> OutOfRangeShifted(conv, c.n > 0), ub |-> TRUE]
    ELSE IF ScaledAtLeast(c, w, 25)
    THEN [q |-> IF c.k < 8 * w THEN c.n * 2 ^ (8 * w - 1 - c.k)
                ELSE c.n \div 2 ^ (c.k - 8 * w + 1),
          ub |-> FALSE]
    ELSE IF c.k <= 8 * w
    THEN [q |-> RoundFloat(c.n * 2 ^ (8 * w - c.k) + 1) \div 2, ub |-> FALSE]
    ELSE LET j == c.k - 8 * w IN
         [q |-> TruncDiv(RoundFloat(c.n + 2 ^ j), 2 ^ j) \div 2, ub |-> FALSE]

\* Lines 211-212: the value whose low bytes are stored.
Stored(q, w) == IF w = 1 THEN q + 128 ELSE q

\* Line 213: the sampwidth least-significant bytes, little-endian.
SampleBytes(sample, w) ==
    [i \in 1..w |-> (sample \div (256 ^ (i - 1))) % 256]


---------------------------------------------------------------------------
\* writewave (lines 198-224).

\* The input values of the calls: 0, +-1/2, +-1, a value to clip, and two
\* small negative values whose scaled value is not an integer.
InputValues ==
    { V(0, 0), V(1, 1), V(-1, 1), V(1, 0), V(-1, 0), V(2, 0), V(-3, 9), V(-3, 33) }

InputSeqs == SeqsUpTo(InputValues, MaxInput) \ { <<>> }

\* The `sample` of every iteration of the loop (lines 206-210).
Samples(input, sampwidth, conv) ==
    [i \in 1..Len(input) |-> Quantize(Clip(input[i]), sampwidth, conv)]

\* Variant: sample i is copied to offset i of the buffer, not i * sampwidth.
quantized_input_NoStride(samples, sampwidth) ==
    LET N == Len(samples) IN
    [p \in 1..(N * sampwidth) |->
        LET i == IF p < N THEN p ELSE N
            b == p - i + 1
        IN  IF b <= sampwidth
            THEN SampleBytes(Stored(samples[i].q, sampwidth), sampwidth)[b]
            ELSE 0]

\* quantized_input after the loop (lines 205-214): sample i (from 0) fills
\* the sampwidth bytes from offset i * sampwidth.
quantized_input(samples, sampwidth) ==
    [p \in 1..(Len(samples) * sampwidth) |->
        LET i == ((p - 1) \div sampwidth) + 1
            b == ((p - 1) % sampwidth) + 1
        IN  SampleBytes(Stored(samples[i].q, sampwidth), sampwidth)[b]]

\* The container on disk after the accessor calls of log, the payload of the
\* `data` writes being taken from the start of buffer.
WrittenFile(log, buffer) ==
    LET n == SumBytes(DataWrites(log)) IN
    File("RIFF", "WAVE",
         << AsFmtChunk(EmittedHeader(log)),
            [id |-> "data", size |-> n, bytes |-> SubSeq(buffer, 1, n)] >>)

\* The call after the file is open (lines 203-224): the samples, the local
\* Wave_write f when it is destroyed, its resource, and the file written.
writewave(input, Fs, sampwidth, nchannels, conv) ==
    LET nframes == Len(input) \div nchannels
        samples == Samples(input, sampwidth, conv)
        buffer == quantized_input(samples, sampwidth)
        c == setnchannels(NewWriter, nchannels)
        s == setsampwidth(c.w, sampwidth)
        r == setframerate(s.w, Fs)
        w == writeframes(r.w, NewLog, nframes)
        z == WriterClose(w.w, w.log, OpenResource)
        d == WriterClose(z.w, z.log, z.res)
        errs == SelectSeq(<<c.err, s.err, r.err, w.err, z.err>>, LAMBDA x : x # NoErr)
    IN  IF errs # <<>>
        THEN [ret |-> "threw", err |-> errs[1], samples |-> samples,
              f |-> NewWriter, log |-> NewLog, res |-> OpenResource, file |-> NoFile]
        ELSE [ret |-> "true", err |-> NoErr, samples |-> samples,
              f |-> [d.w EXCEPT !.status = "destroyed"], log |-> d.log,
              res |-> d.res, file |-> WrittenFile(d.log, buffer)]


\* The arguments of a call of writewave, before the call.
WaveArgs(input, Fs, sampwidth, nchannels) ==
    [ret |-> "notcalled", err |-> NoErr,
     input |-> input, Fs |-> Fs, sampwidth |-> sampwidth, nchannels |-> nchannels,
     samples |-> <<>>, f |-> AbsentWriter, log |-> <<>>, res |-> OpenResource]

\* Whether the ofstream of line 199 opens.
FileOpens == {TRUE, FALSE}

\* writewave(filename, input, Fs, sampwidth, nchannels).
WriteWave ==
    /\ wave.ret = "notcalled"
    /\ \E opens \in FileOpens, conv \in ConvOutcomes :
         IF ~opens
         THEN /\ wave' = [wave EXCEPT !.ret = "false"]
              /\ file' = file
         ELSE LET r == writewave(wave.input, wave.Fs, wave.sampwidth,
                                 wave.nchannels, conv)
              IN  /\ wave' = [wave EXCEPT !.ret = r.ret, !.err = r.err,
                                          !.samples = r.samples, !.f = r.f,
                                          !.log = r.log, !.res = r.res]
                  /\ file' = r.file
    /\ last' = [op |-> "writewave", err |-> wave'.err, arg |-> 0]
    /\ UNCHANGED <<rd, caller, wr, wlog, res>>

InitWave ==
    /\ file = NoFile
    /\ rd = AbsentReader
    /\ caller = Caller0
    /\ wr = AbsentWriter
    /\ wlog = <<>>
    /\ res = OpenResource
    /\ last = NoCall
    /\ wave \in { WaveArgs(input, 8000, sampwidth, nchannels) :
                    input \in InputSeqs, sampwidth \in 1..4, nchannels \in 1..2 }

NextWave ==
    \/ WriteWave
    \/ ReadWave

SpecWave == InitWave /\ [][NextWave]_vars


---------------------------------------------------------------------------
\* Properties of writewave and of the round trip.

\* C12: mono round trip: for every sample width 1..4 and every input of
\* values in [-1, 1], readwave of the file writewave wrote returns as many
\* values as were written, the frame rate given, and every value within
\* 1 / 2^(8w-1) of the input value.
C12_RoundTrip ==
    (/\ last.op = "readwave" /\ wave.ret = "true" /\ wave.nchannels = 1
     /\ \A i \in 1..Len(wave.input) : ~Exceeds1(wave.input[i])) =>
        /\ caller.ret = "true"
        /\ Len(caller.output) = Len(wave.input)
        /\ caller.Fs = wave.Fs
        /\ \A i \in 1..Len(wave.input) :
             LET y == caller.output[i].sum
                 x == wave.input[i]
                 e == 8 * wave.sampwidth - 1
             IN  /\ caller.output[i].nch = 1
                 /\ IF y = 0
                    THEN x.n = 0 \/ (x.k >= e /\ Abs(x.n) <= 2 ^ (x.k - e))
                    ELSE /\ Abs(y) < 2 /\ x.k <= 30
                         /\ LET d == Abs(y * 2 ^ x.k - x.n) IN
                            d = 0 \/ (x.k >= e /\ d <= 2 ^ (x.k - e))


\* C13: every input value is clamped to [-1, 1] before it is quantized, and
\* for every width 1..4 the value stored fits its sampwidth bytes (0..255
\* with the 0x80 bias at width 1, signed two's complement at widths 2..4, no
\* conversion out of the range of int32_t), so the bytes written decode to
\* the quantized integer again.
C13_NoWraparound ==
    wave.ret = "true" =>
        \A i \in 1..Len(wave.input) :
            LET w == wave.sampwidth
                s == wave.samples[i]
                v == Stored(s.q, w)
            IN  /\ ~Exceeds1(Clip(wave.input[i]))
                /\ ~s.ub
                /\ IF w = 1 THEN v \in 0..255
                   ELSE IF w < 4 THEN -(2 ^ (8 * w - 1)) <= v /\ v < 2 ^ (8 * w - 1)
                   ELSE TRUE
                /\ DecodeSample(SampleBytes(v, w), w) = s.q


\* C14: readwave of a mono file of width 1..4 returns normalized values:
\* every decoded value lies in [-1, 1], and at width 1 the byte b decodes to
\* (b - 0x80) / 128 (0x00 to -1.0, 0xFF to 127/128).
C14_DecodedNormalized ==
    (/\ last.op = "readwave" /\ caller.ret = "true"
     /\ rd.nchannels = 1 /\ rd.sampwidth \in 1..4) =>
        \A i \in 1..Len(caller.output) :
            LET y == caller.output[i] IN
            /\ Abs(y.sum) <= y.nch
            /\ rd.sampwidth = 1 =>
                 y.sum * 128 = (file.subchunks[rd.data_chunk].bytes[i] - 128) * y.nch


\* The bytes of channel c of frame f in the `data` chunk of file g.
WrittenSample(g, f, c, nchannels, sampwidth) ==
    [b \in 1..sampwidth |->
        g.subchunks[2].bytes[((f - 1) * nchannels + (c - 1)) * sampwidth + b]]

\* The bytes line 213 copies for input value x.
Encoded(x, sampwidth, conv) ==
    SampleBytes(Stored(Quantize(Clip(x), sampwidth, conv).q, sampwidth), sampwidth)

C17_QuantizeIsFloor ==
    wave.ret = "true" =>
        \A i \in 1..Len(wave.input) :
            LET w == wave.sampwidth
                x == Clip(wave.input[i])
                s == wave.samples[i]
            IN  /\ ~s.ub
                /\ s.q = IF x.n = 0 THEN 0
                         ELSE IF x.k < 8 * w
                         THEN x.n * 2 ^ (8 * w - 1 - x.k)
                         ELSE (x.n + 2 ^ (x.k - 8 * w)) \div 2 ^ (x.k - 8 * w + 1)

====
